---- MODULE Spec2Model ----
(***************************************************************************)
(* Model of scripts/validate-deployment.js, the deployment-readiness       *)
(* checker: one run of the script over one filesystem state.               *)
(*                                                                         *)
(* The filesystem state (which paths exist, what the JSON documents and    *)
(* the environment templates hold) is chosen in Init and never changes.    *)
(* Every console.log call appends one line to out; every iteration of a    *)
(* forEach loop is one step.  JavaScript values are modelled by their      *)
(* kind, which is all the script looks at (truthiness, property access,    *)
(* Array.prototype.map / includes).                                        *)
(*                                                                         *)
(* A path that exists and is read with fs.readFileSync is taken to be a    *)
(* readable regular file.                                                  *)
(***************************************************************************)
EXTENDS Integers, Sequences, FiniteSets, TLC

VARIABLES fs, pc, i, j, hasErrors, out, exited, err

vars == <<fs, pc, i, j, hasErrors, out, exited, err>>

\* ------------------------------------------------------------ bounds

\* The filesystem states explored differ from the complete layout in at most
\* MaxDefects places.
MaxDefects == 2

\* ------------------------------------------------------------ helpers

Range(s) == {s[k] : k \in 1..Len(s)}

\* ------------------------------------------------------------ the checklists

requiredFiles ==
  <<"vercel.json", "package.json", "client/package.json", "backend/package.json",
    "client/.env.example", "backend/.env.example", "DEPLOYMENT.md">>

requiredDirs == <<"client/dist", "backend/dist">>

\* Object.entries(requiredScripts): the entries in insertion order.
requiredScripts ==
  << <<"package.json", <<"build", "vercel-build", "deploy">> >>,
     <<"client/package.json", <<"build", "vercel-build">> >>,
     <<"backend/package.json", <<"build", "vercel-build">> >> >>

requiredSections == <<"builds", "routes", "functions", "headers", "redirects">>

securityHeaders ==
  <<"X-Content-Type-Options", "X-Frame-Options",
    "Strict-Transport-Security", "Content-Security-Policy">>

envFiles == <<"client/.env.example", "backend/.env.example">>

packageFile(k) == requiredScripts[k][1]
scripts(k) == requiredScripts[k][2]
PackageFiles == {packageFile(k) : k \in 1..Len(requiredScripts)}
ScriptNames == UNION {Range(scripts(k)) : k \in 1..Len(requiredScripts)}
Paths == Range(requiredFiles) \cup Range(requiredDirs)

\* ------------------------------------------------------------ JavaScript values

\* The kinds of value a property read can give: "undefined" is what reading
\* an absent key gives.
JSVal == {"undefined", "null", "false", "zero", "emptyStr",
          "str", "num", "true", "obj", "arr"}

\* ToBoolean, as used by if (...) and &&.
Truthy(v) == v \notin {"undefined", "null", "false", "zero", "emptyStr"}

\* Exit statuses.
ExitFailure == 1
ExitSuccess == 0
\* A status of its own for an uncaught exception.
ExitUncaughtDistinct == ExitFailure + 1

\* Node.js ends a process whose exception nobody caught with status 1
\* ("Uncaught Fatal Exception").
ExitUncaught == 1

\* ------------------------------------------------------------ the filesystem

\* A package descriptor's content: top is what JSON.parse makes of the text
\* ("malformed": it throws), scripts the kind of the object's "scripts"
\* property, entry the kind of each named property of that mapping.
CompletePkg(k) ==
  [top |-> "obj", scripts |-> "obj",
   entry |-> [s \in ScriptNames |-> IF s \in Range(scripts(k)) THEN "str" ELSE "undefined"]]

\* vercel.json's content: sec the kind of each top-level section, first the
\* kind of headers[0], inner the kind of headers[0].headers, keys what the
\* elements of that list are: "null", "nokey" (an object with no "key"), or
\* the string its "key" holds.
CompleteVercel ==
  [top |-> "obj",
   sec |-> [s \in Range(requiredSections) |-> IF s = "functions" THEN "obj" ELSE "arr"],
   first |-> "obj", inner |-> "arr", keys |-> securityHeaders]

\* An environment template's lines, by kind: "blank" (empty or blanks only),
\* "comment" (begins with #), "indented" (blanks, then #), "var".
CompleteEnv == <<"comment", "var", "var", "blank">>

PkgIndex(d) == CHOOSE k \in 1..Len(requiredScripts) : packageFile(k) = d

\* The layout the script accepts without a warning.
CompleteLayout ==
  [exists |-> [p \in Paths |-> TRUE],
   pkg    |-> [d \in PackageFiles |-> CompletePkg(PkgIndex(d))],
   vercel |-> CompleteVercel,
   env    |-> [e \in Range(envFiles) |-> CompleteEnv]]

\* ------------------------------------------------------------ the filesystem states explored

\* The pairs <<s[k], t[l]>>, in order.
Cross(s, t) ==
  [n \in 1..(Len(s) * Len(t)) |-> <<s[((n - 1) \div Len(t)) + 1], t[((n - 1) % Len(t)) + 1]>>]

Defect(site, a, b, v) == [site |-> site, a |-> a, b |-> b, v |-> v]

PackageFileSeq == [k \in 1..Len(requiredScripts) |-> packageFile(k)]

\* Every <<descriptor, required script>> pair, in order.
RECURSIVE ScriptPairs(_)
ScriptPairs(k) ==
  IF k > Len(requiredScripts) THEN << >>
  ELSE [n \in 1..Len(scripts(k)) |-> <<packageFile(k), scripts(k)[n]>>] \o ScriptPairs(k + 1)

\* The single departures from the complete layout: a path that does not
\* exist; a descriptor that is malformed, or the JSON value null; a
\* descriptor without "scripts"; a script that is absent, the empty string,
\* or null; a vercel.json that is malformed, or null; a section that is
\* absent; "headers" a string; headers an empty list, or [null];
\* headers[0].headers absent, a string, or an object; a security header
\* that is absent; an element of headers[0].headers that is null, or has
\* no "key"; a template without lines, or with an indented comment.
Defects ==
     [k \in 1..Len(requiredFiles) |-> Defect("exists", requiredFiles[k], "", "")]
  \o [k \in 1..Len(requiredDirs) |-> Defect("exists", requiredDirs[k], "", "")]
  \o [n \in 1..(2 * Len(PackageFileSeq)) |->
        LET c == Cross(PackageFileSeq, <<"malformed", "null">>)[n]
        IN  Defect("pkgTop", c[1], "", c[2])]
  \o [k \in 1..Len(PackageFileSeq) |-> Defect("pkgScripts", PackageFileSeq[k], "", "undefined")]
  \o [n \in 1..(3 * Len(ScriptPairs(1))) |->
        LET c == Cross(ScriptPairs(1), <<"undefined", "emptyStr", "null">>)[n]
        IN  Defect("pkgEntry", c[1][1], c[1][2], c[2])]
  \o <<Defect("vercelTop", "", "", "malformed"), Defect("vercelTop", "", "", "null")>>
  \o [k \in 1..Len(requiredSections) |-> Defect("section", requiredSections[k], "", "undefined")]
  \o <<Defect("section", "headers", "", "str"),
       Defect("first", "", "", "undefined"), Defect("first", "", "", "null"),
       Defect("inner", "", "", "undefined"), Defect("inner", "", "", "str"),
       Defect("inner", "", "", "obj")>>
  \o [k \in 1..Len(securityHeaders) |-> Defect("dropKey", securityHeaders[k], "", "")]
  \o <<Defect("addKey", "", "", "null"), Defect("addKey", "", "", "nokey")>>
  \o [n \in 1..(2 * Len(envFiles)) |->
        LET c == Cross(envFiles, <<"empty", "indented">>)[n]
        IN  Defect("env", c[1], "", c[2])]

\* Layout f with defect number k made (0: none).
Damage(f, k) ==
  IF k = 0 THEN f
  ELSE LET d == Defects[k] IN
    CASE d.site = "exists"     -> [f EXCEPT !.exists[d.a] = FALSE]
      [] d.site = "pkgTop"     -> [f EXCEPT !.pkg[d.a].top = d.v]
      [] d.site = "pkgScripts" -> [f EXCEPT !.pkg[d.a].scripts = d.v]
      [] d.site = "pkgEntry"   -> [f EXCEPT !.pkg[d.a].entry[d.b] = d.v]
      [] d.site = "vercelTop"  -> [f EXCEPT !.vercel.top = d.v]
      [] d.site = "section"    -> [f EXCEPT !.vercel.sec[d.a] = d.v]
      [] d.site = "first"      -> [f EXCEPT !.vercel.first = d.v]
      [] d.site = "inner"      -> [f EXCEPT !.vercel.inner = d.v]
      [] d.site = "dropKey"    ->
           [f EXCEPT !.vercel.keys = SelectSeq(f.vercel.keys, LAMBDA x : x # d.a)]
      [] d.site = "addKey"     -> [f EXCEPT !.vercel.keys = Append(f.vercel.keys, d.v)]
      [] d.site = "env"        ->
           [f EXCEPT !.env[d.a] = IF d.v = "empty" THEN << >> ELSE <<"indented", "var">>]

\* The defects that may be made in place n (1, 2, ...) after defect number
\* prev was made in the place before: none, or a later one of the list.
DefectChoices(n, prev) ==
  IF n > MaxDefects \/ (n > 1 /\ prev = 0) THEN {0}
  ELSE {0} \cup ((prev + 1)..Len(Defects))

\* ------------------------------------------------------------ what the script evaluates

\* fs.existsSync(p)
existsSync(p) == fs.exists[p]

\* JSON.parse(fs.readFileSync(...)) throws a SyntaxError.
ParseThrows(doc) == doc.top = "malformed"

\* Reading a property of null throws a TypeError.
PropertyReadThrows(doc) == doc.top = "null"

\* pkg.scripts, for a pkg that is not null.
PkgScripts(doc) == IF doc.top = "obj" THEN doc.scripts ELSE "undefined"

\* pkg.scripts[script]
PkgScriptEntry(doc, s) == IF PkgScripts(doc) = "obj" THEN doc.entry[s] ELSE "undefined"

\* pkg.scripts && pkg.scripts[script]
ScriptTest(doc, s) == Truthy(PkgScripts(doc)) /\ Truthy(PkgScriptEntry(doc, s))

\* vercelConfig[section], for a vercelConfig that is not null.
VercelSection(doc, s) == IF doc.top = "obj" THEN doc.sec[s] ELSE "undefined"

\* vercelConfig.headers[0]: the first element of a list, the first character
\* of a string, undefined otherwise.
HeadersFirst(doc) ==
  CASE VercelSection(doc, "headers") = "arr" -> doc.first
    [] VercelSection(doc, "headers") = "str" -> "str"
    [] OTHER -> "undefined"

\* vercelConfig.headers[0].headers, read once headers[0] is truthy.
HeadersInner(doc) == IF HeadersFirst(doc) = "obj" THEN doc.inner ELSE "undefined"

\* vercelConfig.headers && vercelConfig.headers[0] && vercelConfig.headers[0].headers
HeadersTest(doc) ==
  /\ Truthy(VercelSection(doc, "headers"))
  /\ Truthy(HeadersFirst(doc))
  /\ Truthy(HeadersInner(doc))

\* vercelConfig.headers[0].headers.map(h => h.key) throws a TypeError: the
\* value has no map method, or an element is null.
MapThrows(doc) == HeadersInner(doc) # "arr" \/ "null" \in Range(doc.keys)

\* The list map(h => h.key) returns.
HeaderKeys(doc) ==
  [k \in 1..Len(doc.keys) |-> IF doc.keys[k] = "nokey" THEN "undefined" ELSE doc.keys[k]]

\* headers.includes(header)
Includes(s, x) == \E k \in 1..Len(s) : s[k] = x

\* line => line.trim() && !line.startsWith('#')
CountsAsVariable(line) == line \notin {"blank", "comment"}

\* content.split('\n').filter(...).length
VariableCount(content) == Len(SelectSeq(content, CountsAsVariable))

\* ------------------------------------------------------------ console output

\* One console.log call: chk is the check that printed it, kind the marker
\* it starts with, item and arg what it names, n the count it states.
Line(chk, kind, item, arg, n) ==
  [chk |-> chk, kind |-> kind, item |-> item, arg |-> arg, n |-> n]

Heading(chk) == Line(chk, "heading", "", "", 0)

\* ------------------------------------------------------------ the run

Init ==
  /\ \E d1 \in DefectChoices(1, 0) : \E d2 \in DefectChoices(2, d1) :
     \E d3 \in DefectChoices(3, d2) : \E d4 \in DefectChoices(4, d3) :
       fs = Damage(Damage(Damage(Damage(CompleteLayout, d1), d2), d3), d4)
  /\ pc = "start"
  /\ i = 1
  /\ j = 1
  /\ hasErrors = FALSE
  /\ out = << >>
  /\ exited = << >>
  /\ err = "none"

\* An exception nobody catches: Node.js prints it to stderr and the process
\* ends there.
Uncaught(e) ==
  /\ pc' = "aborted"
  /\ err' = e
  /\ exited' = <<ExitUncaught>>
  /\ UNCHANGED <<fs, i, j, hasErrors, out>>

\* A catch block that reports the failure and forgets the flag.
CatchVercelUnflagged(e) ==
  /\ out' = Append(out, Line("vercel", "invalid", "vercel.json", e, 0))
  /\ pc' = "envStart"
  /\ UNCHANGED <<fs, i, j, hasErrors, exited, err>>

\* The catch block of the vercel.json check.
CatchVercel(e) ==
  /\ out' = Append(out, Line("vercel", "invalid", "vercel.json", e, 0))
  /\ hasErrors' = TRUE
  /\ pc' = "envStart"
  /\ UNCHANGED <<fs, i, j, exited, err>>

\* The opening line, let hasErrors = false, and the first heading.
Start ==
  /\ pc = "start"
  /\ out' = out \o <<Heading("run"), Heading("file")>>
  /\ hasErrors' = FALSE
  /\ pc' = "files"
  /\ i' = 1
  /\ UNCHANGED <<fs, j, exited, err>>

\* An iteration that assigns the outcome of its own check to the flag.
CheckRequiredFileAssign ==
  /\ pc = "files"
  /\ LET file == requiredFiles[i] IN
       IF existsSync(file)
       THEN /\ out' = Append(out, Line("file", "ok", file, "", 0))
            /\ hasErrors' = FALSE
       ELSE /\ out' = Append(out, Line("file", "missing", file, "", 0))
            /\ hasErrors' = TRUE
  /\ IF i < Len(requiredFiles)
     THEN i' = i + 1 /\ UNCHANGED pc
     ELSE i' = 1 /\ pc' = "dirsStart"
  /\ UNCHANGED <<fs, j, exited, err>>

\* One iteration of requiredFiles.forEach.
CheckRequiredFile ==
  /\ pc = "files"
  /\ LET file == requiredFiles[i] IN
       IF existsSync(file)
       THEN /\ out' = Append(out, Line("file", "ok", file, "", 0))
            /\ UNCHANGED hasErrors
       ELSE /\ out' = Append(out, Line("file", "missing", file, "", 0))
            /\ hasErrors' = TRUE
  /\ IF i < Len(requiredFiles)
     THEN i' = i + 1 /\ UNCHANGED pc
     ELSE i' = 1 /\ pc' = "dirsStart"
  /\ UNCHANGED <<fs, j, exited, err>>

StartDirs ==
  /\ pc = "dirsStart"
  /\ out' = Append(out, Heading("dir"))
  /\ pc' = "dirs"
  /\ i' = 1
  /\ UNCHANGED <<fs, j, hasErrors, exited, err>>

\* One iteration of requiredDirs.forEach.
CheckRequiredDir ==
  /\ pc = "dirs"
  /\ LET dir == requiredDirs[i] IN
       IF existsSync(dir)
       THEN /\ out' = Append(out, Line("dir", "ok", dir, "", 0))
            /\ UNCHANGED hasErrors
       ELSE /\ out' = Append(out, Line("dir", "missing", dir, "run 'npm run build'", 0))
            /\ hasErrors' = TRUE
  /\ IF i < Len(requiredDirs)
     THEN i' = i + 1 /\ UNCHANGED pc
     ELSE i' = 1 /\ pc' = "scriptsStart"
  /\ UNCHANGED <<fs, j, exited, err>>

StartScripts ==
  /\ pc = "scriptsStart"
  /\ out' = Append(out, Heading("script"))
  /\ pc' = "scripts"
  /\ i' = 1
  /\ UNCHANGED <<fs, j, hasErrors, exited, err>>

\* The outer loop goes on to the entry after entry k.
NextDescriptor(k) ==
  /\ j' = 1
  /\ IF k < Len(requiredScripts)
     THEN i' = k + 1 /\ pc' = "scripts"
     ELSE i' = 1 /\ pc' = "vercelStart"

\* An iteration whose JSON.parse is guarded like that of vercel.json: the
\* failure is reported and flagged, and the loop goes on.
OpenDescriptorGuarded ==
  /\ pc = "scripts"
  /\ LET d == packageFile(i) IN
       IF ~existsSync(d)
       THEN NextDescriptor(i) /\ UNCHANGED <<fs, hasErrors, out, exited, err>>
       ELSE IF ParseThrows(fs.pkg[d])
            THEN /\ out' = Append(out, Line("script", "invalid", d, "SyntaxError", 0))
                 /\ hasErrors' = TRUE
                 /\ NextDescriptor(i)
                 /\ UNCHANGED <<fs, exited, err>>
            ELSE /\ pc' = "script"
                 /\ j' = 1
                 /\ UNCHANGED <<fs, i, hasErrors, out, exited, err>>

\* One iteration of Object.entries(requiredScripts).forEach, up to the inner
\* loop: existsSync, readFileSync, JSON.parse.
OpenDescriptor ==
  /\ pc = "scripts"
  /\ LET d == packageFile(i) IN
       IF ~existsSync(d)
       THEN NextDescriptor(i) /\ UNCHANGED <<fs, hasErrors, out, exited, err>>
       ELSE IF ParseThrows(fs.pkg[d])
            THEN Uncaught("SyntaxError")
            ELSE /\ pc' = "script"
                 /\ j' = 1
                 /\ UNCHANGED <<fs, i, hasErrors, out, exited, err>>

\* One iteration of scripts.forEach.
CheckScript ==
  /\ pc = "script"
  /\ LET packageFile_ == packageFile(i)
         pkg == fs.pkg[packageFile(i)]
         script == scripts(i)[j]
     IN  IF PropertyReadThrows(pkg)
         THEN Uncaught("TypeError")
         ELSE /\ IF ScriptTest(pkg, script)
                 THEN /\ out' = Append(out, Line("script", "ok", packageFile_, script, 0))
                      /\ UNCHANGED hasErrors
                 ELSE /\ out' = Append(out, Line("script", "missing", packageFile_, script, 0))
                      /\ hasErrors' = TRUE
              /\ IF j < Len(scripts(i))
                 THEN j' = j + 1 /\ UNCHANGED <<pc, i>>
                 ELSE NextDescriptor(i)
              /\ UNCHANGED <<fs, exited, err>>

StartVercel ==
  /\ pc = "vercelStart"
  /\ out' = Append(out, Heading("vercel"))
  /\ pc' = "vercel"
  /\ UNCHANGED <<fs, i, j, hasErrors, exited, err>>

\* if (fs.existsSync('vercel.json')) and, inside try, JSON.parse.
OpenVercel ==
  /\ pc = "vercel"
  /\ IF ~existsSync("vercel.json")
     THEN pc' = "envStart" /\ UNCHANGED <<fs, i, j, hasErrors, out, exited, err>>
     ELSE IF ParseThrows(fs.vercel)
          THEN CatchVercel("SyntaxError")
          ELSE /\ pc' = "sections"
               /\ i' = 1
               /\ UNCHANGED <<fs, j, hasErrors, out, exited, err>>

\* One iteration of requiredSections.forEach.
CheckSection ==
  /\ pc = "sections"
  /\ LET section == requiredSections[i] IN
       IF PropertyReadThrows(fs.vercel)
       THEN CatchVercel("TypeError")
       ELSE /\ IF Truthy(VercelSection(fs.vercel, section))
               THEN out' = Append(out, Line("section", "ok", "vercel.json", section, 0))
               ELSE out' = Append(out, Line("section", "warn", "vercel.json", section, 0))
            /\ IF i < Len(requiredSections)
               THEN i' = i + 1 /\ UNCHANGED pc
               ELSE i' = 1 /\ pc' = "headersGuard"
            /\ UNCHANGED <<fs, j, hasErrors, exited, err>>

\* The if that guards the security header check, and the map inside it.
MapHeaders ==
  /\ pc = "headersGuard"
  /\ IF ~HeadersTest(fs.vercel)
     THEN pc' = "envStart" /\ UNCHANGED <<fs, i, j, hasErrors, out, exited, err>>
     ELSE IF MapThrows(fs.vercel)
          THEN CatchVercel("TypeError")
          ELSE /\ pc' = "headers"
               /\ i' = 1
               /\ UNCHANGED <<fs, j, hasErrors, out, exited, err>>

\* One iteration of securityHeaders.forEach.
CheckSecurityHeader ==
  /\ pc = "headers"
  /\ LET header == securityHeaders[i] IN
       IF Includes(HeaderKeys(fs.vercel), header)
       THEN out' = Append(out, Line("header", "ok", "vercel.json", header, 0))
       ELSE out' = Append(out, Line("header", "warn", "vercel.json", header, 0))
  /\ IF i < Len(securityHeaders)
     THEN i' = i + 1 /\ UNCHANGED pc
     ELSE i' = 1 /\ pc' = "envStart"
  /\ UNCHANGED <<fs, j, hasErrors, exited, err>>

StartEnv ==
  /\ pc = "envStart"
  /\ out' = Append(out, Heading("env"))
  /\ pc' = "env"
  /\ i' = 1
  /\ UNCHANGED <<fs, j, hasErrors, exited, err>>

\* An iteration that treats a template that does not exist as a failure.
ReportEnvFileStrict ==
  /\ pc = "env"
  /\ LET envFile == envFiles[i] IN
       IF existsSync(envFile)
       THEN /\ out' = Append(out, Line("env", "ok", envFile, "variables",
                                       VariableCount(fs.env[envFile])))
            /\ UNCHANGED hasErrors
       ELSE /\ out' = Append(out, Line("env", "missing", envFile, "", 0))
            /\ hasErrors' = TRUE
  /\ IF i < Len(envFiles)
     THEN i' = i + 1 /\ UNCHANGED pc
     ELSE i' = 1 /\ pc' = "summary"
  /\ UNCHANGED <<fs, j, exited, err>>

\* One iteration of envFiles.forEach.
ReportEnvFile ==
  /\ pc = "env"
  /\ LET envFile == envFiles[i] IN
       IF existsSync(envFile)
       THEN out' = Append(out, Line("env", "ok", envFile, "variables",
                                    VariableCount(fs.env[envFile])))
       ELSE UNCHANGED out
  /\ IF i < Len(envFiles)
     THEN i' = i + 1 /\ UNCHANGED pc
     ELSE i' = 1 /\ pc' = "summary"
  /\ UNCHANGED <<fs, j, hasErrors, exited, err>>

\* The lines the summary prints after the rule.
FailureBanner ==
  <<Line("run", "failed", "", "", 0), Line("run", "text", "", "fix the issues", 0)>>

SuccessBanner ==
  <<Line("run", "passed", "", "", 0), Line("run", "text", "", "ready", 0),
    Line("run", "text", "", "next steps", 0), Line("run", "text", "", "1", 0),
    Line("run", "text", "", "2", 0), Line("run", "text", "", "3", 0)>>

\* The summary: process.exit(1), or the end of the script.
Summary ==
  /\ pc = "summary"
  /\ IF hasErrors
     THEN /\ out' = Append(out, Line("run", "rule", "", "", 0)) \o FailureBanner
          /\ exited' = <<ExitFailure>>
     ELSE /\ out' = Append(out, Line("run", "rule", "", "", 0)) \o SuccessBanner
          /\ exited' = <<ExitSuccess>>
  /\ pc' = "done"
  /\ UNCHANGED <<fs, i, j, hasErrors, err>>

Next ==
  \/ Start
  \/ CheckRequiredFile
  \/ StartDirs
  \/ CheckRequiredDir
  \/ StartScripts
  \/ OpenDescriptor
  \/ CheckScript
  \/ StartVercel
  \/ OpenVercel
  \/ CheckSection
  \/ MapHeaders
  \/ CheckSecurityHeader
  \/ StartEnv
  \/ ReportEnvFile
  \/ Summary

Spec == Init /\ [][Next]_vars

\* ------------------------------------------------------------ vocabulary of the properties

Terminal == pc \in {"done", "aborted"}

Printed(l) == \E k \in 1..Len(out) : out[k] = l

\* How many lines of check chk name item and arg.
LineCount(chk, item, arg) ==
  Cardinality({k \in 1..Len(out) :
                 out[k].chk = chk /\ out[k].item = item /\ out[k].arg = arg})

NoLineOf(chks) == \A k \in 1..Len(out) : out[k].chk \notin chks

PassedPrinted == Printed(Line("run", "passed", "", "", 0))
FailedPrinted == Printed(Line("run", "failed", "", "", 0))

FailureLines == {k \in 1..Len(out) : out[k].kind \in {"missing", "invalid"}}

\* Every package descriptor that exists parses as JSON.
DescriptorsParse == \A d \in PackageFiles : fs.exists[d] => ~ParseThrows(fs.pkg[d])

VercelParses == ~ParseThrows(fs.vercel)

\* The descriptor holds a "scripts" mapping with s among its keys.
ScriptKeyPresent(d, s) ==
  fs.pkg[d].top = "obj" /\ fs.pkg[d].scripts = "obj" /\ fs.pkg[d].entry[s] # "undefined"

\* No required file, directory or script entry is missing.
NothingMissing ==
  /\ \A p \in Paths : fs.exists[p]
  /\ \A k \in 1..Len(requiredScripts) : \A s \in Range(scripts(k)) :
       ScriptKeyPresent(packageFile(k), s)

\* The vercel.json check has gone past its JSON.parse.
AfterOpenVercel ==
  pc \in {"sections", "headersGuard", "headers", "envStart", "env", "summary", "done"}

\* ------------------------------------------------------------ C1

\* C1: over filesystem states whose existing descriptors all parse, a run
\* ends with exit code 0 and the success banner if nothing required is
\* missing and vercel.json parses, and with exit code 1 and the failure
\* banner otherwise.
C1_ExitCodeContract ==
  (Terminal /\ DescriptorsParse) =>
    IF NothingMissing /\ VercelParses
    THEN exited = <<0>> /\ PassedPrinted
    ELSE exited = <<1>> /\ FailedPrinted

\* ------------------------------------------------------------ C2

\* C2: the step that checks a script whose name is a key of the descriptor's
\* "scripts" mapping prints the success line and leaves the failure flag
\* alone, whatever the value under the key.
C2_KeyPresenceIsSuccess ==
  [][(pc = "script" /\ ScriptKeyPresent(packageFile(i), scripts(i)[j])) =>
       /\ out' = Append(out, Line("script", "ok", packageFile(i), scripts(i)[j], 0))
       /\ hasErrors' = hasErrors]_vars

\* ------------------------------------------------------------ C3

\* C3 as stated: a run that an unparsable descriptor ends has an exit code
\* other than 0 and 1, and exit code 1 comes only from the summary's failure
\* path.
C3_ParseAbortExitDistinct ==
  /\ (pc = "aborted" /\ err = "SyntaxError") =>
        (Len(exited) = 1 /\ exited[1] \notin {0, 1})
  /\ exited = <<1>> => (pc = "done" /\ FailedPrinted)

\* C3 as amended: a run over a filesystem with an existing unparsable
\* descriptor ends without reaching the summary, with exit code 1, the same
\* code as a clean validation failure, and with no banner; the failure
\* banner, not exit code 1, is what only the summary's failure path produces.
C3_ParseAbortExitsOne ==
  /\ (Terminal /\ ~DescriptorsParse) =>
        (pc = "aborted" /\ exited = <<1>> /\ ~FailedPrinted /\ ~PassedPrinted)
  /\ (pc = "aborted" /\ err = "SyntaxError") => ~DescriptorsParse
  /\ FailedPrinted => (pc = "done" /\ hasErrors /\ exited = <<1>>)
  /\ exited = <<1>> => (pc = "aborted" \/ FailedPrinted)

C3_Witness ==
  /\ pc = "aborted"
  /\ err = "SyntaxError"
  /\ exited = <<1>>
  /\ ParseThrows(fs.pkg[packageFile(i)])

\* ------------------------------------------------------------ C4

\* Descriptor number k exists and does not parse.
Unparsable(k) == fs.exists[packageFile(k)] /\ ParseThrows(fs.pkg[packageFile(k)])

\* The run cannot get past descriptor number k: it exists, and it does not
\* parse or is null.
Stops(k) ==
  /\ fs.exists[packageFile(k)]
  /\ ParseThrows(fs.pkg[packageFile(k)]) \/ PropertyReadThrows(fs.pkg[packageFile(k)])

\* C4: with an existing unparsable descriptor the run aborts at it: no script
\* line for it or a later descriptor is ever printed, the vercel.json check
\* and the environment template report never run, no banner is printed, and
\* the run ends aborted, at that descriptor unless an earlier one stopped it.
C4_ParseAbortStopsRun ==
  \A k \in 1..Len(requiredScripts) :
    Unparsable(k) =>
      /\ \A m \in k..Len(requiredScripts) : \A s \in ScriptNames :
           LineCount("script", packageFile(m), s) = 0
      /\ NoLineOf({"vercel", "section", "header", "env"})
      /\ ~PassedPrinted /\ ~FailedPrinted
      /\ pc \notin {"vercelStart", "vercel", "envStart", "env", "summary", "done"}
      /\ ~AfterOpenVercel
      /\ Terminal => (pc = "aborted" /\ i <= k)
      /\ (Terminal /\ \A m \in 1..(k - 1) : ~Stops(m)) =>
           (i = k /\ err = "SyntaxError")

C4_Witness ==
  /\ pc = "aborted"
  /\ err = "SyntaxError"
  /\ i = 2
  /\ Unparsable(2)
  /\ LineCount("script", packageFile(1), "build") = 1

\* ------------------------------------------------------------ C5

\* C5: once the vercel.json check has read an existing vercel.json that does
\* not parse, the parse-failure line is printed and the failure flag set, no
\* section or security-header line is ever printed, and the run goes on:
\* through the environment template report to the summary, which prints the
\* failure banner and exits with code 1.
C5_MalformedVercelRecovered ==
  (AfterOpenVercel /\ fs.exists["vercel.json"] /\ ParseThrows(fs.vercel)) =>
    /\ Printed(Line("vercel", "invalid", "vercel.json", "SyntaxError", 0))
    /\ hasErrors
    /\ NoLineOf({"section", "header"})
    /\ pc \in {"envStart", "env", "summary", "done"}
    /\ pc # "done" => ENABLED Next
    /\ pc = "done" =>
         /\ Printed(Heading("env"))
         /\ \A e \in Range(envFiles) :
              LineCount("env", e, "variables") = IF fs.exists[e] THEN 1 ELSE 0
         /\ FailedPrinted /\ ~PassedPrinted
         /\ exited = <<1>>

C5_Witness ==
  /\ pc = "done"
  /\ fs.exists["vercel.json"] /\ ParseThrows(fs.vercel)
  /\ fs.exists["client/.env.example"]
  /\ FailedPrinted
  /\ exited = <<1>>

\* ------------------------------------------------------------ C6

\* "headers" is a list whose first element holds a nested "headers" list of
\* objects.
WellShapedHeaders(doc) ==
  /\ doc.top = "obj"
  /\ doc.sec["headers"] = "arr"
  /\ doc.first = "obj"
  /\ doc.inner = "arr"
  /\ "null" \notin Range(doc.keys)

\* C6: when vercel.json parses and its "headers" structure is absent or
\* shaped differently, the security-header sub-check is skipped: the step
\* prints nothing, leaves the failure flag alone and goes on to the
\* environment template report.
C6_MisshapenHeadersSkipped ==
  [][(pc = "headersGuard" /\ ~WellShapedHeaders(fs.vercel)) =>
       /\ out' = out
       /\ hasErrors' = hasErrors
       /\ pc' = "envStart"]_vars

\* ------------------------------------------------------------ C8

\* C8: when vercel.json parses, no step of the vercel.json check changes the
\* failure flag, the step for an absent section prints a warning line, and
\* the step for a security header that is not among the "key" values prints
\* a warning line.
C8_VercelCheckLeavesFlag ==
  [][(pc \in {"vercel", "sections", "headersGuard", "headers"} /\ VercelParses) =>
       /\ hasErrors' = hasErrors
       /\ (pc = "sections" /\ fs.vercel.top = "obj"
             /\ VercelSection(fs.vercel, requiredSections[i]) = "undefined") =>
            out' = Append(out, Line("section", "warn", "vercel.json", requiredSections[i], 0))
       /\ (pc = "headers" /\ securityHeaders[i] \notin Range(fs.vercel.keys)) =>
            out' = Append(out, Line("header", "warn", "vercel.json", securityHeaders[i], 0))]_vars

\* ------------------------------------------------------------ C7

\* The layout is complete but for environment templates that do not exist.
OnlyTemplatesMissing ==
  /\ \E e \in Range(envFiles) : ~fs.exists[e]
  /\ [fs EXCEPT !.exists = [p \in Paths |-> TRUE]] = CompleteLayout
  /\ \A p \in Paths \ Range(envFiles) : fs.exists[p]

\* C7 as stated: a missing environment template never changes the failure
\* flag or the exit code: a run over a layout that lacks nothing else ends
\* with the flag unset and exit code 0, as the run over the complete layout.
C7_MissingTemplateNeverFails ==
  (pc = "done" /\ OnlyTemplatesMissing) => (~hasErrors /\ exited = <<0>>)

\* C7 as amended: the environment template reporter never changes the
\* failure flag, printing one line for a template that exists and nothing
\* for one that does not; but both templates are required files, so the
\* file presence check reports a missing one and sets the failure flag, and
\* the run ends with the failure banner and exit code 1.
C7_TemplateSkippedByReporterOnly ==
  /\ [][pc = "env" =>
          /\ hasErrors' = hasErrors
          /\ out' = IF fs.exists[envFiles[i]]
                    THEN Append(out, Line("env", "ok", envFiles[i], "variables",
                                          VariableCount(fs.env[envFiles[i]])))
                    ELSE out]_vars
  /\ [](\A e \in Range(envFiles) :
          (~fs.exists[e] /\ pc \notin {"start", "files"}) =>
            /\ Printed(Line("file", "missing", e, "", 0))
            /\ hasErrors
            /\ LineCount("env", e, "variables") = 0
            /\ pc = "done" => (FailedPrinted /\ exited = <<1>>))

C7_Witness ==
  /\ pc = "done"
  /\ OnlyTemplatesMissing
  /\ ~fs.exists["client/.env.example"]
  /\ LineCount("env", "client/.env.example", "variables") = 0
  /\ exited = <<1>>

\* ------------------------------------------------------------ C9

\* The kinds of the lines of check chk that name item and arg.
KindsOf(chk, item, arg) ==
  {out[k].kind : k \in {n \in 1..Len(out) :
                          out[n].chk = chk /\ out[n].item = item /\ out[n].arg = arg}}

\* C9: a run over a filesystem whose existing descriptors all parse reaches
\* the summary; it has printed exactly one line for each required file and
\* directory (success if it exists, failure if not) and for each required
\* script of each existing descriptor (success if the name is a key of
\* "scripts", failure if not); and over the complete layout less one
\* required directory it prints exactly one failure line and exits with
\* code 1.
C9_MissingNeverStops ==
  (Terminal /\ DescriptorsParse) =>
    /\ pc = "done"
    /\ \A k \in 1..Len(requiredFiles) :
         /\ LineCount("file", requiredFiles[k], "") = 1
         /\ KindsOf("file", requiredFiles[k], "") =
              {IF fs.exists[requiredFiles[k]] THEN "ok" ELSE "missing"}
    /\ \A k \in 1..Len(requiredDirs) :
         /\ Cardinality({n \in 1..Len(out) :
                           out[n].chk = "dir" /\ out[n].item = requiredDirs[k]}) = 1
         /\ {out[n].kind : n \in {m \in 1..Len(out) :
                                    out[m].chk = "dir" /\ out[m].item = requiredDirs[k]}} =
              {IF fs.exists[requiredDirs[k]] THEN "ok" ELSE "missing"}
    /\ \A k \in 1..Len(requiredScripts) : \A s \in Range(scripts(k)) :
         fs.exists[packageFile(k)] =>
           /\ LineCount("script", packageFile(k), s) = 1
           /\ KindsOf("script", packageFile(k), s) =
                {IF ScriptKeyPresent(packageFile(k), s) THEN "ok" ELSE "missing"}
    /\ \A k \in 1..Len(requiredDirs) :
         fs = [CompleteLayout EXCEPT !.exists[requiredDirs[k]] = FALSE] =>
           (Cardinality(FailureLines) = 1 /\ exited = <<1>>)

\* ------------------------------------------------------------ C10

\* The step finds a required file, directory or script entry missing, or an
\* exception reaches the catch block of the vercel.json check.
FindsFailure ==
  \/ pc = "files" /\ ~fs.exists[requiredFiles[i]]
       /\ out' = Append(out, Line("file", "missing", requiredFiles[i], "", 0))
  \/ pc = "dirs" /\ ~fs.exists[requiredDirs[i]]
       /\ out' = Append(out, Line("dir", "missing", requiredDirs[i], "run 'npm run build'", 0))
  \/ pc = "script"
       /\ out' = Append(out, Line("script", "missing", packageFile(i), scripts(i)[j], 0))
  \/ pc \in {"vercel", "sections", "headersGuard", "headers"}
       /\ \E e \in {"SyntaxError", "TypeError"} :
            out' = Append(out, Line("vercel", "invalid", "vercel.json", e, 0))

====
